---- MODULE Spec2Model ----
(***************************************************************************)
(* Model of salt/modules/pw_user.py: the FreeBSD `pw` user module.         *)
(*                                                                         *)
(* The module keeps no state of its own.  The state is the operating       *)
(* system's password and group databases, which the module reads through   *)
(* pwd/grp and changes only by running `pw` commands.  What a `pw` command *)
(* does to the databases, and the exit code it gives, are outside the      *)
(* module: they are chosen nondeterministically.                           *)
(*                                                                         *)
(* A Python string is a sequence of one-character strings, so that         *)
(* split, join, format, dirname and sorted are computed, not assumed.      *)
(***************************************************************************)
EXTENDS Integers, Sequences, FiniteSets, TLC

---------------------------------------------------------------------------
(* Bounds of the model                                                     *)

\* uids in the password database are 0..MaxUid; callers ask for 0..MaxUid+1
MaxUid == 1
\* gids in the password database are 0..MaxGid; callers ask for 0..MaxGid+1
MaxGid == 1
\* exit codes of a command are 0..MaxRetcode
MaxRetcode == 1

---------------------------------------------------------------------------
(* Python strings                                                          *)

\* The characters the model uses, in ascending code-point order.
Ascii ==
    << " ", ",", "-", "/",
       "0", "1", "2", "3", "4", "5", "6", "7", "8", "9",
       "a", "b", "c", "d", "e", "f", "g", "h", "i", "j", "k", "l", "m",
       "n", "o", "p", "q", "r", "s", "t", "u", "v", "w", "x", "y", "z" >>

Ord(c) == CHOOSE i \in 1..Len(Ascii) : Ascii[i] = c

\* a < b for Python strings: the first differing character decides, a proper
\* prefix is smaller.
RECURSIVE StrLess(_, _)
StrLess(a, b) ==
    IF b = << >> THEN FALSE
    ELSE IF a = << >> THEN TRUE
    ELSE IF Head(a) # Head(b) THEN Ord(Head(a)) < Ord(Head(b))
    ELSE StrLess(Tail(a), Tail(b))

\* '{0}'.format(n) for an int n >= 0: its decimal digits.
RECURSIVE FormatInt(_)
FormatInt(n) ==
    LET d == << Ascii[5 + (n % 10)] >>
    IN  IF n < 10 THEN d ELSE FormatInt(n \div 10) \o d

\* s.split(sep) for a one-character sep: the pieces between the separators;
\* the empty string gives one empty piece.
RECURSIVE Split(_, _)
Split(s, sep) ==
    IF \A i \in 1..Len(s) : s[i] # sep THEN << s >>
    ELSE LET i == CHOOSE k \in 1..Len(s) :
                     s[k] = sep /\ \A j \in 1..(k - 1) : s[j] # sep
         IN  << SubSeq(s, 1, i - 1) >> \o Split(SubSeq(s, i + 1, Len(s)), sep)

\* sep.join(l)
RECURSIVE Join(_, _)
Join(sep, l) ==
    IF l = << >> THEN << >>
    ELSE IF Len(l) = 1 THEN l[1]
    ELSE l[1] \o sep \o Join(sep, Tail(l))

\* s.rstrip('/')
RECURSIVE RStripSlash(_)
RStripSlash(s) ==
    IF s # << >> /\ s[Len(s)] = "/" THEN RStripSlash(SubSeq(s, 1, Len(s) - 1))
    ELSE s

\* os.path.dirname(p): everything up to the last slash, with the trailing
\* slashes dropped unless nothing else is left.
dirname(p) ==
    LET slashes == {k \in 1..Len(p) : p[k] = "/"}
        i == IF slashes = {} THEN 0
             ELSE CHOOSE k \in slashes : \A j \in slashes : j <= k
        head == SubSeq(p, 1, i)
    IN  IF head # << >> /\ \E k \in 1..Len(head) : head[k] # "/"
        THEN RStripSlash(head)
        ELSE head

\* set(l)
SeqToSet(l) == {l[i] : i \in 1..Len(l)}

\* sorted(list(S)) for a set of strings
RECURSIVE sorted(_)
sorted(S) ==
    IF S = {} THEN << >>
    ELSE LET m == CHOOSE x \in S : \A y \in S : y = x \/ StrLess(x, y)
         IN  << m >> \o sorted(S \ {m})

---------------------------------------------------------------------------
(* The names, paths and groups of the model                                *)

\* the two user names callers ask about; V never has an account or a group
U == << "u" >>
V == << "v" >>
\* a user that is never asked about: it fills the databases
W == << "w" >>
Names == {U, V}

GrpB  == << "b" >>
GrpAb == << "a", "b" >>

ShS == << "/", "s" >>
ShZ == << "/", "z" >>
ShK == << "/", "k" >>
\* shells found in the password database, and shells callers ask for
DbShells  == {ShS, ShZ}
ReqShells == {ShS, ShZ, ShK}

HomeU == << "/", "h", "/", "u" >>
HomeO == << "/", "o" >>
HomeK == << "/", "k" >>
DbHomes  == {HomeU, HomeO}
ReqHomes == {HomeU, HomeO, HomeK}

DbUids  == 0..MaxUid
ReqUids == 0..(MaxUid + 1)
DbGids  == 0..MaxGid
ReqGids == 0..(MaxGid + 1)

---------------------------------------------------------------------------
(* The operating system's databases                                        *)

\* A struct_passwd of pwd.
PwEntry(n, uid, gid, dir, shell) ==
    [pw_name |-> n, pw_passwd |-> << "*" >>, pw_uid |-> uid, pw_gid |-> gid,
     pw_dir |-> dir, pw_shell |-> shell]

WEntry == PwEntry(W, 0, 0, HomeO, ShS)

\* The password databases of the model: W's account, followed or not by an
\* account for U.
PwDbs ==
    { << WEntry >> } \cup
    { << WEntry, PwEntry(U, uid, gid, dir, shell) >> :
        uid \in DbUids, gid \in DbGids, dir \in DbHomes, shell \in DbShells }

\* A struct_group of grp.
GrEntry(n, gid, mem) == [gr_name |-> n, gr_gid |-> gid, gr_mem |-> mem]

\* The group databases of the model: three entries, two of them for the same
\* group name and not in sorted order; W is in all of them and U in any.
\* Group ab has gid 0, which may be the gid of U's account.
GrMems == { << W >>, << W, U >> }
GrDbs ==
    { << GrEntry(GrpB, 1, m1), GrEntry(GrpAb, 0, m2), GrEntry(GrpB, 1, m3) >> :
        m1 \in GrMems, m2 \in GrMems, m3 \in GrMems }

\* Whether pwd.getpwnam(name) finds an entry, and the entry it returns (the
\* first of that name; a KeyError when there is none).
HasPwnam(pw, name) == \E i \in 1..Len(pw) : pw[i].pw_name = name
getpwnam(pw, name) ==
    pw[CHOOSE i \in 1..Len(pw) :
           pw[i].pw_name = name /\ \A j \in 1..(i - 1) : pw[j].pw_name # name]

---------------------------------------------------------------------------
(* The queries                                                             *)

\* The mutant of list_groups that skips the set: one name per matching entry,
\* in database order.
RECURSIVE GroupsInOrder(_, _)
GroupsInOrder(gr, name) ==
    IF gr = << >> THEN << >>
    ELSE (IF \E i \in 1..Len(Head(gr).gr_mem) : Head(gr).gr_mem[i] = name
          THEN << Head(gr).gr_name >> ELSE << >>)
         \o GroupsInOrder(Tail(gr), name)

list_groups_unsorted(gr, name) == GroupsInOrder(gr, name)

\* list_groups(name): the names of the entries of grp.getgrall() whose gr_mem
\* holds name, collected in a set and returned sorted.
list_groups(gr, name) ==
    LET ugrp == { gr[i].gr_name :
                    i \in { k \in 1..Len(gr) :
                              \E j \in 1..Len(gr[k].gr_mem) :
                                  gr[k].gr_mem[j] = name } }
    IN  sorted(ugrp)

\* What info gives when pwd.getpwnam raises KeyError.
NoInfo ==
    [raised |-> TRUE, name |-> << >>, passwd |-> << >>, uid |-> 0, gid |-> 0,
     home |-> << >>, shell |-> << >>, groups |-> << >>]

\* info(name): the password entry's fields and the groups of list_groups;
\* the KeyError of pwd.getpwnam propagates.
info(pw, gr, name) ==
    IF ~HasPwnam(pw, name) THEN NoInfo
    ELSE LET data == getpwnam(pw, name)
         IN  [raised |-> FALSE,
              name   |-> data.pw_name,
              passwd |-> data.pw_passwd,
              uid    |-> data.pw_uid,
              gid    |-> data.pw_gid,
              home   |-> data.pw_dir,
              shell  |-> data.pw_shell,
              groups |-> list_groups(gr, name)]

---------------------------------------------------------------------------
(* What a pw command may do                                                *)

\* pw with the entry of name replaced by e.
RECURSIVE PwReplace(_, _, _)
PwReplace(pw, name, e) ==
    IF pw = << >> THEN << >>
    ELSE (IF Head(pw).pw_name = name THEN << e >> ELSE << Head(pw) >>)
         \o PwReplace(Tail(pw), name, e)

\* pw without the entries of name.
RECURSIVE PwRemove(_, _)
PwRemove(pw, name) ==
    IF pw = << >> THEN << >>
    ELSE (IF Head(pw).pw_name = name THEN << >> ELSE << Head(pw) >>)
         \o PwRemove(Tail(pw), name)

\* The password databases a `pw usermod <name>` that sets one field may
\* leave: the database as it was, the account gone, or the field set to any
\* value (the one asked for or another).
UsermodPw(pw, name, field) ==
    {pw} \cup
    (IF HasPwnam(pw, name)
     THEN {PwRemove(pw, name)} \cup
          { PwReplace(pw, name, [getpwnam(pw, name) EXCEPT ![field] = x]) :
              x \in CASE field = "pw_uid"   -> DbUids
                      [] field = "pw_gid"   -> DbGids
                      [] field = "pw_dir"   -> DbHomes
                      [] field = "pw_shell" -> DbShells }
     ELSE {})

\* The group databases a `pw usermod -G ... -n <name>` may leave: U's
\* membership of each entry is whatever the command made it; the command
\* changes nobody else's membership.
UsermodGr(gr, name) ==
    IF name = U THEN GrDbs ELSE {gr}

\* What running a command gave: the databases it left and its exit code.
Ran(pw, gr, retcode) == [pw |-> pw, gr |-> gr, retcode |-> retcode]

Retcodes == 0..MaxRetcode

---------------------------------------------------------------------------
(* The command lines                                                       *)

PW_USERADD == << "p", "w", " ", "u", "s", "e", "r", "a", "d", "d", " " >>
PW_USERDEL == << "p", "w", " ", "u", "s", "e", "r", "d", "e", "l", " " >>
PW_USERMOD == << "p", "w", " ", "u", "s", "e", "r", "m", "o", "d", " " >>
SP == << " " >>
\* the option "-x " of a letter x
Opt(x) == << "-", x, " " >>

---------------------------------------------------------------------------
(* The operations that change one field: compare, run, read again          *)

\* What a call gave: a KeyError or a returned value, the commands it ran and
\* the databases it left.
Raised(cmds, pw, gr) ==
    [raised |-> TRUE, ret |-> FALSE, cmds |-> cmds, pw |-> pw, gr |-> gr]
Returned(v, cmds, pw, gr) ==
    [raised |-> FALSE, ret |-> v, cmds |-> cmds, pw |-> pw, gr |-> gr]

\* The mutant of chuid that answers false for a name without an account.
chuid_swallows_lookup(pw, gr, name, uid, ran) ==
    LET pre_info  == info(pw, gr, name)
        cmd       == PW_USERMOD \o Opt("u") \o FormatInt(uid) \o SP \o name
        post_info == info(ran.pw, ran.gr, name)
    IN  IF pre_info.raised THEN Returned(FALSE, << >>, pw, gr)
        ELSE IF uid = pre_info.uid THEN Returned(TRUE, << >>, pw, gr)
        ELSE IF post_info.raised THEN Raised(<< cmd >>, ran.pw, ran.gr)
        ELSE IF post_info.uid # pre_info.uid
             THEN Returned(post_info.uid = uid, << cmd >>, ran.pw, ran.gr)
        ELSE Returned(FALSE, << cmd >>, ran.pw, ran.gr)

\* chuid(name, uid); ran is what the command does if it is run.
chuid(pw, gr, name, uid, ran) ==
    LET pre_info  == info(pw, gr, name)
        cmd       == PW_USERMOD \o Opt("u") \o FormatInt(uid) \o SP \o name
        post_info == info(ran.pw, ran.gr, name)
    IN  IF pre_info.raised THEN Raised(<< >>, pw, gr)
        ELSE IF uid = pre_info.uid THEN Returned(TRUE, << >>, pw, gr)
        ELSE IF post_info.raised THEN Raised(<< cmd >>, ran.pw, ran.gr)
        ELSE IF post_info.uid # pre_info.uid
             THEN Returned(post_info.uid = uid, << cmd >>, ran.pw, ran.gr)
        ELSE Returned(FALSE, << cmd >>, ran.pw, ran.gr)

\* The mutant of chgid that trusts the command's exit code instead of
\* reading the database again.
chgid_by_retcode(pw, gr, name, gid, ran) ==
    LET pre_info == info(pw, gr, name)
        cmd      == PW_USERMOD \o Opt("g") \o FormatInt(gid) \o SP \o name
    IN  IF pre_info.raised THEN Raised(<< >>, pw, gr)
        ELSE IF gid = pre_info.gid THEN Returned(TRUE, << >>, pw, gr)
        ELSE Returned(ran.retcode = 0, << cmd >>, ran.pw, ran.gr)

\* chgid(name, gid)
chgid(pw, gr, name, gid, ran) ==
    LET pre_info  == info(pw, gr, name)
        cmd       == PW_USERMOD \o Opt("g") \o FormatInt(gid) \o SP \o name
        post_info == info(ran.pw, ran.gr, name)
    IN  IF pre_info.raised THEN Raised(<< >>, pw, gr)
        ELSE IF gid = pre_info.gid THEN Returned(TRUE, << >>, pw, gr)
        ELSE IF post_info.raised THEN Raised(<< cmd >>, ran.pw, ran.gr)
        ELSE IF post_info.gid # pre_info.gid
             THEN Returned(post_info.gid = gid, << cmd >>, ran.pw, ran.gr)
        ELSE Returned(FALSE, << cmd >>, ran.pw, ran.gr)

\* The mutant of chshell that reports any change of the shell as success.
chshell_any_change(pw, gr, name, shell, ran) ==
    LET pre_info  == info(pw, gr, name)
        cmd       == PW_USERMOD \o Opt("s") \o shell \o SP \o name
        post_info == info(ran.pw, ran.gr, name)
    IN  IF pre_info.raised THEN Raised(<< >>, pw, gr)
        ELSE IF shell = pre_info.shell THEN Returned(TRUE, << >>, pw, gr)
        ELSE IF post_info.raised THEN Raised(<< cmd >>, ran.pw, ran.gr)
        ELSE Returned(post_info.shell # pre_info.shell, << cmd >>, ran.pw, ran.gr)

\* chshell(name, shell)
chshell(pw, gr, name, shell, ran) ==
    LET pre_info  == info(pw, gr, name)
        cmd       == PW_USERMOD \o Opt("s") \o shell \o SP \o name
        post_info == info(ran.pw, ran.gr, name)
    IN  IF pre_info.raised THEN Raised(<< >>, pw, gr)
        ELSE IF shell = pre_info.shell THEN Returned(TRUE, << >>, pw, gr)
        ELSE IF post_info.raised THEN Raised(<< cmd >>, ran.pw, ran.gr)
        ELSE IF post_info.shell # pre_info.shell
             THEN Returned(post_info.shell = shell, << cmd >>, ran.pw, ran.gr)
        ELSE Returned(FALSE, << cmd >>, ran.pw, ran.gr)

\* chhome(name, home, persist)
chhome(pw, gr, name, home, persist, ran) ==
    LET pre_info  == info(pw, gr, name)
        cmd       == PW_USERMOD \o Opt("d") \o home \o SP
                     \o (IF persist THEN SP \o Opt("m") ELSE << >>)
                     \o name
        post_info == info(ran.pw, ran.gr, name)
    IN  IF pre_info.raised THEN Raised(<< >>, pw, gr)
        ELSE IF home = pre_info.home THEN Returned(TRUE, << >>, pw, gr)
        ELSE IF post_info.raised THEN Raised(<< cmd >>, ran.pw, ran.gr)
        ELSE IF post_info.home # pre_info.home
             THEN Returned(post_info.home = home, << cmd >>, ran.pw, ran.gr)
        ELSE Returned(FALSE, << cmd >>, ran.pw, ran.gr)

---------------------------------------------------------------------------
(* chgroups                                                                *)

\* The groups argument: a comma-separated string or a list of names.
GroupsStr(s)  == [none |-> FALSE, isstr |-> TRUE,  s |-> s,     l |-> << >>]
GroupsList(l) == [none |-> FALSE, isstr |-> FALSE, s |-> << >>, l |-> l]

\* isinstance(groups, string_types) and groups.split(',')
NormGroups(groups) == IF groups.isstr THEN Split(groups.s, ",") ELSE groups.l

\* The mutant of chgroups that always runs the command.
chgroups_no_shortcut(pw, gr, name, groups, append, ran) ==
    LET glist == NormGroups(groups)
        ugrps == SeqToSet(list_groups(gr, name))
        cmd   == PW_USERMOD \o Opt("G") \o Join(<< "," >>, glist) \o SP
                 \o Opt("n") \o name \o SP
                 \o (IF append THEN << "-", "a" >> ELSE << >>)
        agrps == SeqToSet(list_groups(ran.gr, name))
    IN  Returned(ugrps \ agrps = {}, << cmd >>, ran.pw, ran.gr)

\* The mutant of chgroups that checks the groups asked for: true when the
\* user's groups after the command are the requested ones.
chgroups_checks_request(pw, gr, name, groups, append, ran) ==
    LET glist == NormGroups(groups)
        ugrps == SeqToSet(list_groups(gr, name))
        cmd   == PW_USERMOD \o Opt("G") \o Join(<< "," >>, glist) \o SP
                 \o Opt("n") \o name \o SP
                 \o (IF append THEN << "-", "a" >> ELSE << >>)
        agrps == SeqToSet(list_groups(ran.gr, name))
    IN  IF ugrps = SeqToSet(glist) THEN Returned(TRUE, << >>, pw, gr)
        ELSE Returned(agrps = SeqToSet(glist), << cmd >>, ran.pw, ran.gr)

\* chgroups(name, groups, append)
chgroups(pw, gr, name, groups, append, ran) ==
    LET glist == NormGroups(groups)
        ugrps == SeqToSet(list_groups(gr, name))
        cmd   == PW_USERMOD \o Opt("G") \o Join(<< "," >>, glist) \o SP
                 \o Opt("n") \o name \o SP
                 \o (IF append THEN << "-", "a" >> ELSE << >>)
        agrps == SeqToSet(list_groups(ran.gr, name))
    IN  IF ugrps = SeqToSet(glist) THEN Returned(TRUE, << >>, pw, gr)
        ELSE Returned(Cardinality(ugrps \ agrps) = 0, << cmd >>, ran.pw, ran.gr)

---------------------------------------------------------------------------
(* add and delete                                                          *)

\* Optional arguments: None or a value.
NoneInt    == [none |-> TRUE,  v |-> 0]
SomeInt(n) == [none |-> FALSE, v |-> n]
NoneStr    == [none |-> TRUE,  v |-> << >>]
SomeStr(x) == [none |-> FALSE, v |-> x]
GroupsNone == [none |-> TRUE, isstr |-> FALSE, s |-> << >>, l |-> << >>]
\* home: True, False or a path
HomeBool(b) == [isbool |-> TRUE,  b |-> b,     s |-> << >>]
HomePath(x) == [isbool |-> FALSE, b |-> FALSE, s |-> x]

\* Python's truth of an argument: None, 0, '' and [] are false.
TruthyInt(x)  == ~x.none /\ x.v # 0
TruthyStr(x)  == ~x.none /\ x.v # << >>
TruthyHome(h) == IF h.isbool THEN h.b ELSE h.s # << >>

\* The command line of add, lines 37-53.
add_cmd(name, uid, gid, groups, home, shell) ==
    LET glist == IF groups.none THEN << >> ELSE NormGroups(groups)
    IN  PW_USERADD
        \o (IF TruthyStr(shell) THEN Opt("s") \o shell.v \o SP ELSE << >>)
        \o (IF TruthyInt(uid) THEN Opt("u") \o FormatInt(uid.v) \o SP ELSE << >>)
        \o (IF TruthyInt(gid) THEN Opt("g") \o FormatInt(gid.v) \o SP ELSE << >>)
        \o (IF ~groups.none /\ glist # << >>
            THEN Opt("G") \o Join(<< "," >>, glist) \o SP ELSE << >>)
        \o (IF TruthyHome(home)
            THEN IF home.isbool /\ home.b THEN Opt("m")
                 ELSE Opt("m") \o Opt("b") \o dirname(home.s) \o SP
            ELSE << >>)
        \o << "-", "n", " " >> \o name

\* The mutant of add that takes any exit code for success.
add_ignores_retcode(pw, gr, name, uid, gid, groups, home, shell, ran) ==
    Returned(TRUE, << add_cmd(name, uid, gid, groups, home, shell) >>,
             ran.pw, ran.gr)

\* add(name, uid, gid, groups, home, shell): runs the command, returns
\* not ret['retcode'].
add(pw, gr, name, uid, gid, groups, home, shell, ran) ==
    Returned(ran.retcode = 0,
             << add_cmd(name, uid, gid, groups, home, shell) >>,
             ran.pw, ran.gr)

\* delete(name, remove, force)
delete(pw, gr, name, remove, force, ran) ==
    LET cmd == PW_USERDEL \o (IF remove THEN Opt("r") ELSE << >>) \o name
    IN  Returned(ran.retcode = 0, << cmd >>, ran.pw, ran.gr)

\* The password databases a `pw useradd -n <name>` may leave: the database
\* as it was, or with an account for name after it (U's, in this model).
UseraddPw(pw, name) ==
    {pw} \cup
    (IF name = U /\ ~HasPwnam(pw, name)
     THEN {Append(pw, PwEntry(name, 0, 0, HomeU, ShS))}
     ELSE {})

\* The password databases a `pw userdel <name>` may leave.
UserdelPw(pw, name) == {pw, PwRemove(pw, name)}

---------------------------------------------------------------------------
(* The state machine                                                       *)

VARIABLES
    pwdb,      \* the password database, as pwd.getpwall() lists it
    grpdb,     \* the group database, as grp.getgrall() lists it
    pwdb0,     \* the password database when the last call began
    grpdb0,    \* the group database when the last call began
    call,      \* the last call: its operation and arguments
    out,       \* what it gave: raised, ret, and cmds, the commands it ran
    exitcode   \* the exit code of the command it ran (0 when it ran none)

vars == << pwdb, grpdb, pwdb0, grpdb0, call, out, exitcode >>

NoCall == [op |-> "none", name |-> << >>]
NoOut  == [raised |-> FALSE, ret |-> FALSE, cmds |-> << >>]

\* Any database of the model, and no call made yet.
Init ==
    /\ pwdb \in PwDbs
    /\ grpdb \in GrDbs
    /\ pwdb0 = pwdb
    /\ grpdb0 = grpdb
    /\ call = NoCall
    /\ out = NoOut
    /\ exitcode = 0

\* The end of a call c that gave o, its command (if any) having exited rc.
Finish(c, o, rc) ==
    /\ call' = c
    /\ out' = [raised |-> o.raised, ret |-> o.ret, cmds |-> o.cmds]
    /\ pwdb' = o.pw
    /\ grpdb' = o.gr
    /\ pwdb0' = pwdb
    /\ grpdb0' = grpdb
    /\ exitcode' = IF o.cmds = << >> THEN 0 ELSE rc

Chuid ==
    \E name \in Names, uid \in ReqUids, rc \in Retcodes :
      \E pw2 \in UsermodPw(pwdb, name, "pw_uid") :
        /\ Finish([op |-> "chuid", name |-> name, uid |-> uid],
                  chuid(pwdb, grpdb, name, uid, Ran(pw2, grpdb, rc)), rc)

Chgid ==
    \E name \in Names, gid \in ReqGids, rc \in Retcodes :
      \E pw2 \in UsermodPw(pwdb, name, "pw_gid") :
        /\ Finish([op |-> "chgid", name |-> name, gid |-> gid],
                  chgid(pwdb, grpdb, name, gid, Ran(pw2, grpdb, rc)), rc)

Chshell ==
    \E name \in Names, shell \in ReqShells, rc \in Retcodes :
      \E pw2 \in UsermodPw(pwdb, name, "pw_shell") :
        /\ Finish([op |-> "chshell", name |-> name, shell |-> shell],
                  chshell(pwdb, grpdb, name, shell, Ran(pw2, grpdb, rc)), rc)

Chhome ==
    \E name \in Names, home \in ReqHomes, persist \in BOOLEAN, rc \in Retcodes :
      \E pw2 \in UsermodPw(pwdb, name, "pw_dir") :
        /\ Finish([op |-> "chhome", name |-> name, home |-> home,
                   persist |-> persist],
                  chhome(pwdb, grpdb, name, home, persist, Ran(pw2, grpdb, rc)),
                  rc)

\* The groups callers ask chgroups for: no group, one, two as a list (not
\* in sorted order) and the same two as a comma-separated string.
GroupArgs ==
    { GroupsList(<< >>), GroupsList(<< GrpB >>),
      GroupsList(<< GrpB, GrpAb >>),
      GroupsStr(GrpB \o << "," >> \o GrpAb) }

Chgroups ==
    \E name \in Names, groups \in GroupArgs, append \in BOOLEAN,
       rc \in Retcodes :
      \E gr2 \in UsermodGr(grpdb, name) :
        /\ Finish([op |-> "chgroups", name |-> name, groups |-> groups,
                   append |-> append],
                  chgroups(pwdb, grpdb, name, groups, append,
                           Ran(pwdb, gr2, rc)), rc)

Info ==
    \E name \in Names :
      LET ret == info(pwdb, grpdb, name)
      IN  /\ Finish([op |-> "info", name |-> name],
                    IF ret.raised THEN Raised(<< >>, pwdb, grpdb)
                    ELSE Returned(ret, << >>, pwdb, grpdb), 0)

ListGroups ==
    \E name \in Names :
      /\ Finish([op |-> "list_groups", name |-> name],
                Returned(list_groups(grpdb, name), << >>, pwdb, grpdb), 0)

---------------------------------------------------------------------------
(* The operations on the password database alone: the four that change a   *)
(* field of an account, and info                                           *)

GrOut == << GrEntry(GrpB, 1, << W >>), GrEntry(GrpAb, 0, << W >>),
            GrEntry(GrpB, 1, << W >>) >>
GrIn  == << GrEntry(GrpB, 1, << W, U >>), GrEntry(GrpAb, 0, << W, U >>),
            GrEntry(GrpB, 1, << W >>) >>

\* These operations leave the group database alone: U is in no group, or in
\* two.
InitFields ==
    /\ pwdb \in PwDbs
    /\ grpdb \in {GrOut, GrIn}
    /\ pwdb0 = pwdb
    /\ grpdb0 = grpdb
    /\ call = NoCall
    /\ out = NoOut
    /\ exitcode = 0

NextFields ==
    \/ Chuid
    \/ Chgid
    \/ Chshell
    \/ Chhome
    \/ Info

SpecFields == InitFields /\ [][NextFields]_vars

---------------------------------------------------------------------------
(* The operations on the group database alone                              *)

\* Group membership does not depend on the fields of U's account, only (for
\* info) on whether there is one.
InitGroups ==
    /\ pwdb \in { << WEntry >>, << WEntry, PwEntry(U, 0, 0, HomeU, ShS) >> }
    /\ grpdb \in GrDbs
    /\ pwdb0 = pwdb
    /\ grpdb0 = grpdb
    /\ call = NoCall
    /\ out = NoOut
    /\ exitcode = 0

NextGroups ==
    \/ Chgroups
    \/ ListGroups
    \/ Info

SpecGroups == InitGroups /\ [][NextGroups]_vars

---------------------------------------------------------------------------
(* add and delete, on their own: the commands they build and their results *)

AddUids   == {NoneInt, SomeInt(0), SomeInt(1000)}
AddGids   == {NoneInt, SomeInt(0), SomeInt(1000)}
AddShells == {NoneStr, SomeStr(ShS)}
AddGroups == {GroupsNone, GroupsList(<< GrpB, GrpAb >>),
              GroupsStr(GrpB \o << "," >> \o GrpAb)}
AddHomes  == {HomeBool(TRUE), HomeBool(FALSE), HomePath(HomeU)}

InitAccount ==
    /\ pwdb \in { << WEntry >>, << WEntry, PwEntry(U, 0, 0, HomeU, ShS) >> }
    /\ grpdb = GrOut
    /\ pwdb0 = pwdb
    /\ grpdb0 = grpdb
    /\ call = NoCall
    /\ out = NoOut
    /\ exitcode = 0

Add ==
    \E uid \in AddUids, gid \in AddGids, groups \in AddGroups,
       home \in AddHomes, shell \in AddShells, rc \in Retcodes :
      \E pw2 \in UseraddPw(pwdb, U) :
        /\ Finish([op |-> "add", name |-> U, uid |-> uid, gid |-> gid,
                   groups |-> groups, home |-> home, shell |-> shell],
                  add(pwdb, grpdb, U, uid, gid, groups, home, shell,
                      Ran(pw2, grpdb, rc)), rc)

Delete ==
    \E name \in Names, remove \in BOOLEAN, force \in BOOLEAN, rc \in Retcodes :
      \E pw2 \in UserdelPw(pwdb, name) :
        /\ Finish([op |-> "delete", name |-> name, remove |-> remove,
                   force |-> force],
                  delete(pwdb, grpdb, name, remove, force, Ran(pw2, grpdb, rc)),
                  rc)

NextAccount ==
    \/ Add
    \/ Delete

SpecAccount == InitAccount /\ [][NextAccount]_vars

---------------------------------------------------------------------------
(* Every operation, as the first call on any database                      *)

\* Every database of the model is an initial one here, and a call reads
\* nothing but the databases and its arguments: a call made later does
\* nothing that a first call on the same database does not.
FirstChuid      == call = NoCall /\ Chuid
FirstChgid      == call = NoCall /\ Chgid
FirstChshell    == call = NoCall /\ Chshell
FirstChhome     == call = NoCall /\ Chhome
FirstChgroups   == call = NoCall /\ Chgroups
FirstInfo       == call = NoCall /\ Info
FirstListGroups == call = NoCall /\ ListGroups
FirstAdd        == call = NoCall /\ Add
FirstDelete     == call = NoCall /\ Delete

NextFirst ==
    \/ FirstChuid
    \/ FirstChgid
    \/ FirstChshell
    \/ FirstChhome
    \/ FirstChgroups
    \/ FirstInfo
    \/ FirstListGroups
    \/ FirstAdd
    \/ FirstDelete

SpecFirst == Init /\ [][NextFirst]_vars

---------------------------------------------------------------------------
(* What the last call was about                                            *)

FieldOps == {"chuid", "chgid", "chshell", "chhome"}

\* The value a field-changing call asked for.
Requested ==
    CASE call.op = "chuid"   -> call.uid
      [] call.op = "chgid"   -> call.gid
      [] call.op = "chshell" -> call.shell
      [] call.op = "chhome"  -> call.home

\* The field of an info record that the call is about.
FieldOf(i) ==
    CASE call.op = "chuid"   -> i.uid
      [] call.op = "chgid"   -> i.gid
      [] call.op = "chshell" -> i.shell
      [] call.op = "chhome"  -> i.home

\* The account read before the call and read again after it.
Before == info(pwdb0, grpdb0, call.name)
After  == info(pwdb, grpdb, call.name)

\* The group sets before and after the call, and the set chgroups was asked for.
GroupsBefore == SeqToSet(list_groups(grpdb0, call.name))
GroupsAfter  == SeqToSet(list_groups(grpdb, call.name))
GroupsAsked  == SeqToSet(NormGroups(call.groups))

DbUnchanged == pwdb = pwdb0 /\ grpdb = grpdb0

---------------------------------------------------------------------------
(* C1: chuid, chgid, chshell and chhome, called on an existing user whose  *)
(* field differs from the value asked for, run one command and return true *)
(* exactly when the field read again after the command equals the value    *)
(* asked for: false when it is unchanged, false when it changed to another *)
(* value, whatever the command's exit code.                                *)
C1_VerifyByReread ==
    ( /\ call.op \in FieldOps
      /\ ~Before.raised
      /\ FieldOf(Before) # Requested
      /\ ~After.raised )
    => /\ ~out.raised
       /\ Len(out.cmds) = 1
       /\ out.ret = (FieldOf(After) = Requested)

\* chgid's command exited 0 and the database shows no change: false.
C1_Witness ==
    /\ call.op = "chgid"
    /\ ~Before.raised
    /\ out.cmds # << >>
    /\ exitcode = 0
    /\ DbUnchanged
    /\ ~out.raised
    /\ out.ret = FALSE

---------------------------------------------------------------------------
(* C2: when the field already equals the value asked for (chuid, chgid,    *)
(* chshell, chhome), or the user's group set equals the set asked for      *)
(* (chgroups, in any order), the call returns true, runs no command and    *)
(* leaves the databases as they were.                                      *)
C2_ShortCircuit ==
    /\ ( /\ call.op \in FieldOps
         /\ ~Before.raised
         /\ FieldOf(Before) = Requested )
       => (~out.raised /\ out.ret = TRUE /\ out.cmds = << >> /\ DbUnchanged)
    /\ ( /\ call.op = "chgroups"
         /\ GroupsBefore = GroupsAsked )
       => (~out.raised /\ out.ret = TRUE /\ out.cmds = << >> /\ DbUnchanged)

\* chgroups asked for <<b, ab>> of a user whose groups list as <<ab, b>>.
C2_Witness ==
    /\ call.op = "chgroups"
    /\ ~call.groups.isstr
    /\ call.groups.l = << GrpB, GrpAb >>
    /\ list_groups(grpdb0, call.name) = << GrpAb, GrpB >>
    /\ out.ret = TRUE
    /\ out.cmds = << >>

---------------------------------------------------------------------------
(* C5: whenever chuid, chgid, chshell or chhome returns true, by the       *)
(* short cut or after running its command, info of the same name on the    *)
(* databases the call left (what a call of info that follows at once       *)
(* reads) finds the account and reports the value asked for.               *)
C5_RoundTrip ==
    ( /\ call.op \in FieldOps
      /\ ~out.raised
      /\ out.ret = TRUE )
    => /\ ~info(pwdb, grpdb, call.name).raised
       /\ FieldOf(info(pwdb, grpdb, call.name)) = Requested

\* chshell ran its command, returned true, and info reports the new shell.
C5_Witness ==
    /\ call.op = "chshell"
    /\ call.shell = ShZ
    /\ out.cmds # << >>
    /\ ~out.raised
    /\ out.ret = TRUE
    /\ info(pwdb0, grpdb0, call.name).shell = ShS
    /\ info(pwdb, grpdb, call.name).shell = ShZ

---------------------------------------------------------------------------
(* C8: info, chuid, chgid, chshell and chhome of a name the password       *)
(* database does not hold raise the lookup error, having run no command    *)
(* and changed nothing; an operation that changes accounts raises only     *)
(* when a lookup misses, and otherwise returns a boolean.                  *)
MutatingOps == FieldOps \cup {"chgroups", "add", "delete"}

---------------------------------------------------------------------------
(* C3: when chgroups runs its command, it returns true if every group the  *)
(* user is in after the command is one of the groups asked for.            *)
C3_PostCheckAgainstRequest ==
    ( /\ call.op = "chgroups"
      /\ out.cmds # << >>
      /\ GroupsAfter \subseteq GroupsAsked )
    => (~out.raised /\ out.ret = TRUE)

---------------------------------------------------------------------------
(* C4: whenever chgroups(name, groups, append=false) returns true,         *)
(* list_groups(name) on the databases the call left gives exactly the      *)
(* groups asked for.                                                       *)
C4_GroupsReadAfterWrite ==
    ( /\ call.op = "chgroups"
      /\ ~call.append
      /\ ~out.raised
      /\ out.ret = TRUE )
    => SeqToSet(list_groups(grpdb, call.name)) = GroupsAsked

---------------------------------------------------------------------------
(* C9: list_groups(name) returns exactly the names of the group entries    *)
(* whose member list holds name, in strictly ascending order (so each name *)
(* once, however many entries carry it); the group whose gid is the gid of *)
(* the account is there only if its member list holds name; and the groups *)
(* of info(name) are list_groups(name).                                    *)
MemberOf(e, name) == \E j \in 1..Len(e.gr_mem) : e.gr_mem[j] = name

C9_ListGroups ==
    /\ call.op = "list_groups"
       => /\ ~out.raised
          /\ SeqToSet(out.ret) =
                 { grpdb[i].gr_name :
                     i \in {k \in 1..Len(grpdb) : MemberOf(grpdb[k], call.name)} }
          /\ \A i \in 1..Len(out.ret) : \A j \in 1..Len(out.ret) :
                 i < j => StrLess(out.ret[i], out.ret[j])
    /\ (call.op = "info" /\ ~out.raised)
       => /\ out.ret.groups = list_groups(grpdb, call.name)
          /\ \A i \in 1..Len(grpdb) :
                 ( /\ grpdb[i].gr_gid = out.ret.gid
                   /\ \E j \in 1..Len(out.ret.groups) :
                          out.ret.groups[j] = grpdb[i].gr_name )
                 => \E k \in 1..Len(grpdb) :
                        /\ grpdb[k].gr_name = grpdb[i].gr_name
                        /\ MemberOf(grpdb[k], call.name)

\* U is in both entries of group b and in ab, listed after b: <<ab, b>>.
C9_Witness ==
    /\ call.op = "list_groups"
    /\ call.name = U
    /\ \A i \in 1..Len(grpdb) : MemberOf(grpdb[i], U)
    /\ out.ret = << GrpAb, GrpB >>

---------------------------------------------------------------------------
(* C10: chgroups never raises; when it runs its command it returns true    *)
(* exactly when every group the user was in before the command is among    *)
(* the user's groups after it, whatever was asked for; so it returns true  *)
(* for any name that was in no group before the call, account or not,      *)
(* whatever the command did.                                               *)
C10_PreSubsetOfPost ==
    call.op = "chgroups"
    => /\ ~out.raised
       /\ out.cmds # << >> => out.ret = (GroupsBefore \subseteq GroupsAfter)
       /\ GroupsBefore = {} => out.ret = TRUE

\* U has no account and was in no group; the command put U in a group that
\* was not asked for, and chgroups returned true.
C10_Witness ==
    /\ call.op = "chgroups"
    /\ call.name = U
    /\ ~HasPwnam(pwdb0, U)
    /\ GroupsBefore = {}
    /\ out.cmds # << >>
    /\ GroupsAfter # GroupsAsked
    /\ ~(GroupsAfter \subseteq GroupsAsked)
    /\ out.ret = TRUE

---------------------------------------------------------------------------
(* C6: add builds `pw useradd`, then -s <shell>, -u <uid>, -g <gid>,       *)
(* -G <groups joined by commas>, the home flags and -n <name>, in this     *)
(* order; each of -s, -u, -g, -G is there exactly when the argument was    *)
(* given (a uid or gid of 0 included); home=True gives -m, a path gives    *)
(* -m -b <its parent directory>, home=False nothing; groups as a string    *)
(* and as the list of the same names give the same command.                *)
C6_Groups == IF call.groups.isstr THEN Split(call.groups.s, ",") ELSE call.groups.l

C6_Command ==
    PW_USERADD
    \o (IF call.shell.none THEN << >> ELSE Opt("s") \o call.shell.v \o SP)
    \o (IF call.uid.none THEN << >> ELSE Opt("u") \o FormatInt(call.uid.v) \o SP)
    \o (IF call.gid.none THEN << >> ELSE Opt("g") \o FormatInt(call.gid.v) \o SP)
    \o (IF call.groups.none THEN << >>
        ELSE Opt("G") \o Join(<< "," >>, C6_Groups) \o SP)
    \o (IF call.home.isbool
        THEN (IF call.home.b THEN Opt("m") ELSE << >>)
        ELSE Opt("m") \o Opt("b") \o dirname(call.home.s) \o SP)
    \o Opt("n") \o call.name

C6_AddCommand ==
    call.op = "add" => out.cmds = << C6_Command >>

---------------------------------------------------------------------------
(* C7: add and delete each run exactly one command and return true exactly *)
(* when its exit code is 0, never raising, whatever the command did to the *)
(* databases; delete's command is `pw userdel [-r] <name>`, with -r        *)
(* exactly when remove is true, and force changes neither the command nor  *)
(* the result.                                                             *)
C7_ExitCodeDecides ==
    /\ call.op \in {"add", "delete"}
       => /\ ~out.raised
          /\ Len(out.cmds) = 1
          /\ out.ret = (exitcode = 0)
    /\ call.op = "delete"
       => out.cmds = << PW_USERDEL
                        \o (IF call.remove THEN << "-", "r", " " >> ELSE << >>)
                        \o call.name >>

\* delete(u, remove=True, force=True) ran `pw userdel -r u`; the command
\* removed the account but exited 1, and delete returned false.
C7_Witness ==
    /\ call.op = "delete"
    /\ call.name = U
    /\ call.remove
    /\ call.force
    /\ out.cmds = << << "p", "w", " ", "u", "s", "e", "r", "d", "e", "l", " ",
                        "-", "r", " ", "u" >> >>
    /\ HasPwnam(pwdb0, U)
    /\ ~HasPwnam(pwdb, U)
    /\ exitcode = 1
    /\ out.ret = FALSE

====

